---- MODULE Spec2Model ----
(***************************************************************************)
(* Model of src/main.py: a product catalogue served over HTTP.            *)
(*   GET  /product  -> ProductCollection.get  (paginated listing)         *)
(*   POST /product  -> ProductCollection.post (validated create)          *)
(* Text (query parameters, JSON strings, product names) is modelled as    *)
(* sequences of one-character strings so that int() and format() are      *)
(* computed rather than assumed.                                           *)
(***************************************************************************)
EXTENDS Integers, Sequences, FiniteSets, TLC

VARIABLES store, model, req, resp, log, prev, posted, sent500, reached, repeated, call

vars == <<store, model, req, resp, log, prev, posted, sent500, reached, repeated, call>>

(* ------------------------------ bounds -------------------------------- *)

\* number of products created on top of the initial store
MaxPosts == 2

(* ------------------------- program constants -------------------------- *)

RangeStop == 10
DefaultPage == 1
DefaultCount == 5

(* ------------------------------- text --------------------------------- *)

DigitChars == <<"0", "1", "2", "3", "4", "5", "6", "7", "8", "9">>

DigitChar(d) == DigitChars[d + 1]

IsDigit(c) == \E d \in 0..9 : DigitChar(d) = c

DigitVal(c) == CHOOSE d \in 0..9 : DigitChar(d) = c

RECURSIVE DigitsVal(_)
DigitsVal(s) ==
    IF s = <<>> THEN 0
    ELSE DigitsVal(SubSeq(s, 1, Len(s) - 1)) * 10 + DigitVal(s[Len(s)])

HasSign(s) == Len(s) > 0 /\ s[1] \in {"-", "+"}

Unsigned(s) == IF HasSign(s) THEN Tail(s) ELSE s

\* int(value) of Python on a text: TRUE when it does not raise ValueError
IntOk(s) == Len(Unsigned(s)) > 0 /\ \A i \in 1..Len(Unsigned(s)) : IsDigit(Unsigned(s)[i])

IntVal(s) ==
    IF HasSign(s) /\ s[1] = "-" THEN 0 - DigitsVal(Unsigned(s)) ELSE DigitsVal(Unsigned(s))

RECURSIVE IntToStr(_)
\* "{}".format(n) for n >= 0
IntToStr(n) ==
    IF n < 10 THEN <<DigitChar(n)>>
    ELSE IntToStr(n \div 10) \o <<DigitChar(n % 10)>>

(* ------------------------------ inputs -------------------------------- *)

\* raw texts of the query parameters
PageTexts == { <<>>, <<"0">>, <<"1">>, <<"2">>, <<"3">>, <<"-", "1">>, <<"a">> }

CountTexts == { <<"0">>, <<"1">>, <<"2">>, <<"5">>, <<"-", "1">>, <<"a">> }

NoParam == [present |-> FALSE, text |-> <<>>]

Param(t) == [present |-> TRUE, text |-> t]

PageParams == {NoParam} \cup { Param(t) : t \in PageTexts }

CountParams == {NoParam} \cup { Param(t) : t \in CountTexts }

\* values of a field of the JSON body
Absent == [t |-> "absent", n |-> 0, s |-> <<>>]

JNum(n) == [t |-> "num", n |-> n, s |-> <<>>]

JStr(s) == [t |-> "str", n |-> 0, s |-> s]

NameValues == { Absent, JStr(<<"a">>), JStr(<<"b">>), JNum(7) }

InventoryValues ==
    { Absent, JNum(-1), JNum(0), JStr(<<"2">>), JStr(<<"-", "1">>), JStr(<<"a">>) }

Bodies == [name : NameValues, inventory : InventoryValues]

\* unexpected failures of the persistence backend
NoFault == [type |-> "none", detail |-> "none"]

\* requests during which the backend is made to fail
FaultPageParams == { NoParam, Param(<<"0">>), Param(<<"2">>) }

FaultCountParams == { NoParam, Param(<<"-", "1">>), Param(<<"2">>) }

FaultBodies == [name : {JStr(<<"a">>)}, inventory : {JNum(-1), JNum(0)}]

Failures ==
    { [type |-> "OperationalError", detail |-> "database is locked"],
      [type |-> "IntegrityError", detail |-> "constraint failed"] }

\* entities handed directly to a repository
Entities == [name : {<<"a">>, <<"b">>}, inventory : {-1, 0, 1}]

(* ---------------------------- persistence ----------------------------- *)

\* "Product {}".format(i)
ProductName(i) == <<"P", "r", "o", "d", "u", "c", "t", " ">> \o IntToStr(i)

\* Product(name=..., inventory=...) once inserted with the given key
Product(id, name, inventory) == [id |-> id, name |-> name, inventory |-> inventory]

Ids(rows) == { rows[i].id : i \in 1..Len(rows) }

MaxId(rows) == CHOOSE m \in Ids(rows) : \A k \in Ids(rows) : k <= m

\* integer primary key generated on insert
NextIdReuse(rows) == IF rows = <<>> THEN 1 ELSE MaxId(rows)

NextId(rows) == IF rows = <<>> THEN 1 ELSE MaxId(rows) + 1

\* fixtures(): products 1 .. 9 inserted into an empty table
fixtures == [i \in 1..(RangeStop - 1) |-> Product(i, ProductName(i), i)]

AssertionError ==
    [type |-> "AssertionError", detail |-> "A model is required to use the query property."]

\* Repository.query: the assertion on self.model, then a query over the table
Repository_query_unchecked(m, rows) == [raised |-> FALSE, error |-> NoFault, rows |-> rows]

Repository_query(m, rows) ==
    IF m = "None"
    THEN [raised |-> TRUE, error |-> AssertionError, rows |-> <<>>]
    ELSE [raised |-> FALSE, error |-> NoFault, rows |-> rows]

\* Repository.get_all
get_all(m, rows) == Repository_query(m, rows)

\* Repository.save: session.add, session.commit; commit may fail in the backend
save(m, rows, entity, fault) ==
    IF fault # NoFault
    THEN [raised |-> TRUE, error |-> fault, rows |-> rows]
    ELSE [raised |-> FALSE, error |-> NoFault,
          rows |-> Append(rows, Product(NextId(rows), entity.name, entity.inventory))]

\* query.offset(n): SQLite treats a negative OFFSET as zero
Offset(rows, n) == SubSeq(rows, (IF n < 0 THEN 0 ELSE n) + 1, Len(rows))

\* query.limit(n)
Limit(rows, n) == SubSeq(rows, 1, IF Len(rows) < n THEN Len(rows) ELSE n)

(* ------------------------------ schemas ------------------------------- *)

\* ProductCollectionSchema: id, name, inventory
dump(p) == [id |-> p.id, name |-> p.name, inventory |-> p.inventory]

dump_many(rows) == [i \in 1..Len(rows) |-> dump(rows[i])]

\* ProductCreateSchema.validate_inventory: TRUE when it raises
validate_inventory_lax(value) == value < -1

validate_inventory(value) == value < 0

\* fields.String(required=True)
NameErrors(v) ==
    IF v.t = "absent" THEN <<"Missing data for required field.">>
    ELSE IF v.t # "str" THEN <<"Not a valid string.">>
    ELSE <<>>

\* fields.Integer(required=True), then the validator
InventoryCoerces(v) == v.t = "num" \/ (v.t = "str" /\ IntOk(v.s))

InventoryValue(v) == IF v.t = "num" THEN v.n ELSE IntVal(v.s)

InventoryErrors(v) ==
    IF v.t = "absent" THEN <<"Missing data for required field.">>
    ELSE IF ~InventoryCoerces(v) THEN <<"Not a valid integer.">>
    ELSE IF validate_inventory(InventoryValue(v)) THEN <<"Invalid negative inventory.">>
    ELSE <<>>

FieldErrors(json, f) == IF f = "name" THEN NameErrors(json.name) ELSE InventoryErrors(json.inventory)

\* ProductCreateSchema(strict=True).load: every failing field is reported;
\* without errors make_product builds the entity
load_first_only(json) ==
    LET bad == { f \in {"name", "inventory"} : FieldErrors(json, f) # <<>> }
        first == IF "name" \in bad THEN {"name"} ELSE bad
    IN IF bad # {}
       THEN [raised |-> TRUE, messages |-> [f \in first |-> FieldErrors(json, f)]]
       ELSE [raised |-> FALSE,
             entity |-> [name |-> json.name.s, inventory |-> InventoryValue(json.inventory)]]

load(json) ==
    LET bad == { f \in {"name", "inventory"} : FieldErrors(json, f) # <<>> }
    IN IF bad # {}
       THEN [raised |-> TRUE, messages |-> [f \in bad |-> FieldErrors(json, f)]]
       ELSE [raised |-> FALSE,
             entity |-> [name |-> json.name.s, inventory |-> InventoryValue(json.inventory)]]

(* --------------------------- error handlers --------------------------- *)

\* errorhandler(ValidationError)
validation_error_handler(messages) == [status |-> 400, body |-> messages]

\* repr(error)
Repr(error) == <<error.type, error.detail>>

\* errorhandler(Exception)
exception_handler(error) ==
    [status |-> 500,
     body |-> [message |-> "Oops we did it again...", error |-> Repr(error)]]

\* flask_restful.abort(400, message=errors) of the request parser
abort(errors) == [status |-> 400, body |-> [message |-> errors]]

\* jsonify(rv)
jsonify(rv) == [status |-> 200, body |-> rv]

(* ----------------------------- pagination ----------------------------- *)

\* positive_int: int(value), then the check rv > 0
positive_int(text) ==
    IF IntOk(text) /\ IntVal(text) > 0
    THEN [ok |-> TRUE, v |-> IntVal(text)]
    ELSE [ok |-> FALSE, v |-> 0]

Help(f) ==
    IF f = "page" THEN "Page number must be a positive integer."
    ELSE "Items per page must be a positive integer."

\* RequestParser(bundle_errors=True).parse_args() with the two arguments
parse_args_defaulting(page, count) ==
    [ok |-> TRUE,
     errors |-> <<>>,
     page |-> IF page.present /\ positive_int(page.text).ok
              THEN positive_int(page.text).v ELSE DefaultPage,
     count |-> IF count.present /\ positive_int(count.text).ok
               THEN positive_int(count.text).v ELSE DefaultCount]

parse_args(page, count) ==
    LET bad == ( IF page.present /\ ~positive_int(page.text).ok THEN {"page"} ELSE {} )
               \cup ( IF count.present /\ ~positive_int(count.text).ok THEN {"count"} ELSE {} )
    IN IF bad # {}
       THEN [ok |-> FALSE, errors |-> [f \in bad |-> Help(f)], page |-> 0, count |-> 0]
       ELSE [ok |-> TRUE,
             errors |-> <<>>,
             page |-> IF page.present THEN positive_int(page.text).v ELSE DefaultPage,
             count |-> IF count.present THEN positive_int(count.text).v ELSE DefaultCount]

\* int(ceil(query.count() / float(args.count)))
total_pages_floor(n, count) == n \div count

total_pages(n, count) == IF n % count = 0 THEN n \div count ELSE n \div count + 1

\* if args.page > total_pages: args.page = total_pages
clamp_page(page, tp) == IF page > tp THEN tp ELSE page

\* query.offset((args.page - 1) * args.count).limit(args.count)
page_slice_next(rows, page, count) == Limit(Offset(rows, page * count), count)

page_slice(rows, page, count) == Limit(Offset(rows, (page - 1) * count), count)

\* paginate_result: parse the arguments, count, clamp, slice, serialize
paginate_result(rows, page, count, fault) ==
    LET args == parse_args(page, count)
    IN IF ~args.ok
       THEN [kind |-> "abort", errors |-> args.errors, reached |-> {"parse_args"}]
       ELSE IF fault # NoFault
       THEN [kind |-> "error", error |-> fault, reached |-> {"parse_args", "count"}]
       ELSE LET tp == total_pages(Len(rows), args.count)
                pg == clamp_page(args.page, tp)
            IN [kind |-> "ok",
                reached |-> {"parse_args", "count", "slice"},
                value |-> [page |-> pg,
                           items_per_page |-> args.count,
                           total_pages |-> tp,
                           items |-> dump_many(page_slice(rows, pg, args.count))]]

(* ------------------------------ handlers ------------------------------ *)

\* ProductCollection.get under marshall_with(..., pagination=True, many=True):
\* repository.get_all(), paginate_result, jsonify; failures go to the handlers
ProductCollection_get_consuming(m, rows, page, count, fault) ==
    LET q == get_all(m, rows)
        r == paginate_result(q.rows, page, count, fault)
    IN IF q.raised
       THEN [resp |-> exception_handler(q.error), rows |-> rows,
             logged |-> {q.error}, reached |-> {"get_all"}]
       ELSE IF r.kind = "abort"
       THEN [resp |-> abort(r.errors), rows |-> rows,
             logged |-> {}, reached |-> {"get_all"} \cup r.reached]
       ELSE IF r.kind = "error"
       THEN [resp |-> exception_handler(r.error), rows |-> rows,
             logged |-> {r.error}, reached |-> {"get_all"} \cup r.reached]
       ELSE [resp |-> jsonify(r.value),
             rows |-> SubSeq(rows, 1, Len(rows) - Len(r.value.items)),
             logged |-> {}, reached |-> {"get_all"} \cup r.reached]

ProductCollection_get(m, rows, page, count, fault) ==
    LET q == get_all(m, rows)
        r == paginate_result(q.rows, page, count, fault)
    IN IF q.raised
       THEN [resp |-> exception_handler(q.error), rows |-> rows,
             logged |-> {q.error}, reached |-> {"get_all"}]
       ELSE IF r.kind = "abort"
       THEN [resp |-> abort(r.errors), rows |-> rows,
             logged |-> {}, reached |-> {"get_all"} \cup r.reached]
       ELSE IF r.kind = "error"
       THEN [resp |-> exception_handler(r.error), rows |-> rows,
             logged |-> {r.error}, reached |-> {"get_all"} \cup r.reached]
       ELSE [resp |-> jsonify(r.value), rows |-> rows,
             logged |-> {}, reached |-> {"get_all"} \cup r.reached]

\* ProductCollection.post under marshall_with(parse_with(strict schema)):
\* schema.load, repository.save, schema.dump, jsonify
ProductCollection_post(m, rows, json, fault) ==
    LET l == load(json)
        s == save(m, rows, l.entity, fault)
    IN IF l.raised
       THEN [resp |-> validation_error_handler(l.messages), rows |-> rows,
             logged |-> {}, reached |-> {"load"}]
       ELSE IF s.raised
       THEN [resp |-> exception_handler(s.error), rows |-> rows,
             logged |-> {s.error}, reached |-> {"load", "save"}]
       ELSE [resp |-> jsonify(dump(s.rows[Len(s.rows)])), rows |-> s.rows,
             logged |-> {}, reached |-> {"load", "save"}]

(* ------------------------------- state -------------------------------- *)

NoRequest == [kind |-> "none", page |-> NoParam, count |-> NoParam,
              json |-> [name |-> Absent, inventory |-> Absent], fault |-> NoFault]

NoResponse == [status |-> 0, body |-> [none |-> TRUE]]

NoCall == [op |-> "none", raised |-> FALSE, error |-> NoFault]

Start(rows, m) ==
    /\ store = rows
    /\ model = m
    /\ req = NoRequest
    /\ resp = NoResponse
    /\ log = {}
    /\ prev = rows
    /\ posted = {}
    /\ sent500 = {}
    /\ reached = {}
    /\ repeated = FALSE
    /\ call = NoCall

\* __main__: db.create_all(), fixtures(), app.run with ProductRepository
Init == Start(fixtures, "Product")

\* the application object on a created, unseeded database
InitFresh == Start(<<>>, "Product")

\* either of the two
InitAny == Init \/ InitFresh

\* a repository on an empty table, bound (ProductRepository) or not (Repository)
InitRepo == \E m \in {"None", "Product"} : Start(<<>>, m)

Respond(r, o) ==
    /\ req' = r
    /\ resp' = o.resp
    /\ store' = o.rows
    /\ prev' = store
    /\ log' = log \cup o.logged
    /\ reached' = o.reached
    /\ repeated' = (r = req)
    /\ sent500' = IF o.resp.status = 500 THEN sent500 \cup {o.resp.body} ELSE sent500
    /\ UNCHANGED <<model, call>>

\* GET /product?page=..&count=..
Get(page, count, fault) ==
    /\ Respond([kind |-> "GET", page |-> page, count |-> count,
                json |-> [name |-> Absent, inventory |-> Absent], fault |-> fault],
               ProductCollection_get(model, store, page, count, fault))
    /\ posted' = posted

\* POST /product with a JSON body
Post(json, fault) ==
    LET o == ProductCollection_post(model, store, json, fault)
    IN /\ o.rows = store \/ Cardinality(posted) < MaxPosts
       /\ Respond([kind |-> "POST", page |-> NoParam, count |-> NoParam,
                   json |-> json, fault |-> fault], o)
       /\ posted' = IF o.resp.status = 200 THEN posted \cup {o.resp.body} ELSE posted

\* repository.get_all() called directly
CallGetAll ==
    LET q == get_all(model, store)
    IN /\ call' = [op |-> "get_all", raised |-> q.raised, error |-> q.error]
       /\ prev' = store
       /\ UNCHANGED <<store, model, req, resp, log, posted, sent500, reached, repeated>>

\* repository.save(entity) called directly
CallSave(entity) ==
    LET s == save(model, store, entity, NoFault)
    IN /\ Len(store) < MaxPosts
       /\ call' = [op |-> "save", raised |-> s.raised, error |-> s.error]
       /\ store' = s.rows
       /\ prev' = store
       /\ UNCHANGED <<model, req, resp, log, posted, sent500, reached, repeated>>

Next ==
    \/ \E page \in PageParams, count \in CountParams : Get(page, count, NoFault)
    \/ \E json \in Bodies : Post(json, NoFault)

NextFault ==
    \/ \E page \in FaultPageParams, count \in FaultCountParams,
          fault \in Failures \cup {NoFault} : Get(page, count, fault)
    \/ \E json \in FaultBodies, fault \in Failures \cup {NoFault} : Post(json, fault)

NextRepo ==
    \/ CallGetAll
    \/ \E entity \in Entities : CallSave(entity)

Spec == Init /\ [][Next]_vars

SpecAny == InitAny /\ [][Next]_vars

SpecFault == Init /\ [][NextFault]_vars

SpecRepo == InitRepo /\ [][NextRepo]_vars

(* ------------------------------ properties ---------------------------- *)

\* what a request asks for, read off the raw request
BadParam(p) == p.present /\ ~(IntOk(p.text) /\ IntVal(p.text) > 0)

AskedPage == IF req.page.present THEN IntVal(req.page.text) ELSE 1

AskedCount == IF req.count.present THEN IntVal(req.count.text) ELSE 5

Listed == req.kind = "GET" /\ resp.status = 200

NegativeInventory(v) ==
    \/ v.t = "num" /\ v.n < 0
    \/ v.t = "str" /\ IntOk(v.s) /\ IntVal(v.s) < 0

NonNegativeInventory(v) ==
    \/ v.t = "num" /\ v.n >= 0
    \/ v.t = "str" /\ IntOk(v.s) /\ IntVal(v.s) >= 0

ValidBody(json) == json.name.t = "str" /\ NonNegativeInventory(json.inventory)

\* C1: every persisted product has inventory >= 0, in every state reached
\* from the seeded store by GET and POST requests with arbitrary bodies.
C1_InventoryNeverNegative == \A i \in 1..Len(store) : store[i].inventory >= 0

C1_Witness ==
    /\ posted # {}
    /\ req.kind = "POST"
    /\ NegativeInventory(req.json.inventory)
    /\ req.json.name.t = "str"
    /\ store = prev

\* C2: a POST with a valid body answers 200 with the submitted name and
\* inventory and an id that no product persisted before the request has;
\* every later GET page that lists a created product reports it exactly as
\* the POST response did.
C2_CreateIdFreshAndStable ==
    /\ (req.kind = "POST" /\ ValidBody(req.json)) =>
          /\ resp.status = 200
          /\ resp.body.id \notin Ids(prev)
          /\ resp.body.name = req.json.name.s
          /\ resp.body.inventory =
                (IF req.json.inventory.t = "num" THEN req.json.inventory.n
                 ELSE IntVal(req.json.inventory.s))
    /\ Listed =>
          \A k \in 1..Len(resp.body.items) : \A p \in posted :
              resp.body.items[k].id = p.id => resp.body.items[k] = p

C2_Witness ==
    /\ Listed
    /\ Cardinality(posted) > 1
    /\ \E k \in 1..Len(resp.body.items) : resp.body.items[k] \in posted

\* C3: a POST whose inventory is negative answers 400 with an error keyed
\* by the field inventory, never reaches Repository.save and leaves the
\* store as it was.
C3_NegativeInventoryRejected ==
    (req.kind = "POST" /\ NegativeInventory(req.json.inventory)) =>
        /\ resp.status = 400
        /\ "inventory" \in DOMAIN resp.body
        /\ resp.body.inventory = <<"Invalid negative inventory.">>
        /\ "save" \notin reached
        /\ store = prev

C3_Witness ==
    /\ req.kind = "POST"
    /\ NegativeInventory(req.json.inventory)
    /\ req.json.name.t = "absent"
    /\ resp.status = 400

\* C4: the page reported by GET /product is total_pages when the requested
\* page exceeds total_pages and total_pages > 0, the requested page
\* otherwise (also when total_pages is 0), hence always >= 1.
C4_PageAsClaimed ==
    Listed =>
        /\ resp.body.page =
              (IF AskedPage > resp.body.total_pages /\ resp.body.total_pages > 0
               THEN resp.body.total_pages ELSE AskedPage)
        /\ resp.body.page >= 1

\* C5: total_pages reported by GET /product is ceil(N / count) for a store
\* of N products, 0 exactly when N is 0, and items_per_page is count.
C5_TotalPagesIsCeiling ==
    Listed =>
        /\ resp.body.total_pages * AskedCount >= Len(store)
        /\ (resp.body.total_pages - 1) * AskedCount < Len(store)
        /\ (resp.body.total_pages = 0 <=> Len(store) = 0)
        /\ resp.body.items_per_page = AskedCount

C5_Witness ==
    /\ Listed
    /\ Len(store) > 0
    /\ Len(store) % AskedCount # 0
    /\ Len(store) > AskedCount

\* C6: the items of GET /product are the serialized products at store
\* positions (p-1)*count+1 .. min(p*count, N) in store order, p being the
\* requested page clamped to the last page: at most count items.
C6_ItemsAreThePageSlice ==
    Listed =>
        LET c == AskedCount
            n == Len(store)
            tp == resp.body.total_pages
            p == IF AskedPage > tp THEN tp ELSE AskedPage
            first == (p - 1) * c + 1
            last == IF p * c < n THEN p * c ELSE n
            items == resp.body.items
        IN /\ Len(items) = Cardinality({ j \in 1..n : first <= j /\ j <= last })
           /\ Len(items) <= c
           /\ \A k \in 1..Len(items) :
                 /\ items[k].id = store[first + k - 1].id
                 /\ items[k].name = store[first + k - 1].name
                 /\ items[k].inventory = store[first + k - 1].inventory

\* nine products, count=5, page=3: the four items of page 2
C6_Witness ==
    /\ Listed
    /\ Len(store) = 9
    /\ AskedCount = 5
    /\ AskedPage = 3
    /\ Len(resp.body.items) = 4
    /\ resp.body.items[1].id = 6

\* C7: a GET /product whose page or count is non-positive or not an
\* integer answers 400 with the message of each offending field, carries
\* no items, and is rejected before the store is counted or sliced.
C7_BadPaginationRejected ==
    (req.kind = "GET" /\ (BadParam(req.page) \/ BadParam(req.count))) =>
        /\ resp.status = 400
        /\ BadParam(req.page) =>
              /\ "page" \in DOMAIN resp.body.message
              /\ resp.body.message.page = "Page number must be a positive integer."
        /\ BadParam(req.count) =>
              /\ "count" \in DOMAIN resp.body.message
              /\ resp.body.message.count = "Items per page must be a positive integer."
        /\ "items" \notin DOMAIN resp.body
        /\ reached \cap {"count", "slice"} = {}
        /\ store = prev

C7_Witness ==
    /\ req.kind = "GET"
    /\ req.page = Param(<<"0">>)
    /\ req.count = Param(<<"-", "1">>)
    /\ resp.status = 400

\* C8: an unexpected failure during GET or POST answers 500 with the
\* generic message, its detail goes to the server log only: requests that
\* fail differently receive identical bodies.
C8_NoDetailReachesClient ==
    /\ resp.status = 500 => req.fault \in log
    /\ \A b \in sent500 : b.message = "Oops we did it again..."
    /\ \A b1 \in sent500, b2 \in sent500 : b1 = b2

\* C9: GET /product leaves the store unchanged, and a GET repeating the
\* page and count of the GET before it receives the same response.
C9_GetReadOnlyIdempotent ==
    [][ req'.kind = "GET" =>
          /\ store' = store
          /\ (req.kind = "GET" /\ req'.page = req.page /\ req'.count = req.count)
                => resp' = resp ]_vars

C9_Witness ==
    /\ Listed
    /\ repeated
    /\ posted # {}
    /\ Len(resp.body.items) > 0

\* C10 as stated: on an unbound Repository both get_all and save fail with
\* the assertion and save persists nothing; a bound one never raises it.
C10_UnboundAlwaysFails ==
    /\ (model = "None" /\ call.op \in {"get_all", "save"}) =>
          /\ call.raised
          /\ call.error = AssertionError
          /\ store = prev
    /\ model = "Product" => ~call.raised

\* C10 amended: on an unbound Repository get_all fails with the assertion;
\* save does not consult the model, does not fail and persists the entity;
\* a bound Repository never raises the assertion.
C10_UnboundFailsOnQueryOnly ==
    /\ (model = "None" /\ call.op = "get_all") =>
          /\ call.raised
          /\ call.error = AssertionError
          /\ store = prev
    /\ (model = "None" /\ call.op = "save") =>
          /\ ~call.raised
          /\ Len(store) = Len(prev) + 1
    /\ model = "Product" => ~call.raised

C10_Witness ==
    /\ model = "None"
    /\ call.op = "get_all"
    /\ call.raised
    /\ Len(store) > 0

====
